---- MODULE Spec2Model ----
(***************************************************************************)
(* Sensor platform of the Elexa Guardian integration (sensor.py).          *)
(*                                                                         *)
(* State: the coordinators stored for the config entry, the entry's list   *)
(* of dispatcher unsubscribe handles, the dispatcher connection of the     *)
(* paired-sensor-coordinator-added signal, the sensor entities handed to   *)
(* the host's entity-addition callback and the coordinator listeners.      *)
(***************************************************************************)
EXTENDS Integers, Sequences, FiniteSets, TLC

\* ---------------------------------------------------------------- bounds
MaxVal == 2            \* readings are drawn from 1..MaxVal
MaxUids == 2           \* paired sensors that can be discovered
MaxRefresh == 1        \* coordinator refreshes in one behaviour
MaxUpdates == 2        \* host-driven update callbacks in one behaviour
MaxOtherHandles == 1   \* unsubscribe handles appended by other platforms

Values == 1..MaxVal
Uids == 1..MaxUids

\* ------------------------------------------------------------- constants
SENSOR_KIND_BATTERY == "battery"
SENSOR_KIND_TEMPERATURE == "temperature"
SENSOR_KIND_UPTIME == "uptime"

PERCENTAGE == "%"
TEMP_FAHRENHEIT == "F"
TIME_MINUTES == "min"

API_SYSTEM_DIAGNOSTICS == "system_diagnostics"
API_SYSTEM_ONBOARD_SENSOR_STATUS == "system_onboard_sensor_status"
Apis == {API_SYSTEM_DIAGNOSTICS, API_SYSTEM_ONBOARD_SENSOR_STATUS}

SENSOR_DESCRIPTION_BATTERY ==
    [key |-> SENSOR_KIND_BATTERY, native_unit_of_measurement |-> PERCENTAGE]
SENSOR_DESCRIPTION_TEMPERATURE ==
    [key |-> SENSOR_KIND_TEMPERATURE, native_unit_of_measurement |-> TEMP_FAHRENHEIT]
SENSOR_DESCRIPTION_UPTIME ==
    [key |-> SENSOR_KIND_UPTIME, native_unit_of_measurement |-> TIME_MINUTES]

PAIRED_SENSOR_SENSORS == <<SENSOR_DESCRIPTION_BATTERY, SENSOR_DESCRIPTION_TEMPERATURE>>
VALVE_CONTROLLER_SENSORS == <<SENSOR_DESCRIPTION_TEMPERATURE, SENSOR_DESCRIPTION_UPTIME>>

Descriptions ==
    {SENSOR_DESCRIPTION_BATTERY, SENSOR_DESCRIPTION_TEMPERATURE, SENSOR_DESCRIPTION_UPTIME}

\* The entry the platform is set up for, and the unsubscribe handle that
\* async_dispatcher_connect returns for this platform's subscription.
ENTRY_ID == "entry"
SensorHandle == "sensor"
OtherHandle == "other"

\* ------------------------------------------------------------------ state
VARIABLES
    coordinators,   \* hass.data[DOMAIN][DATA_COORDINATOR][entry_id]: api -> coordinator
    paired,         \* hass.data[DOMAIN][DATA_COORDINATOR_PAIRED_SENSOR][entry_id]: uid -> coordinator
    pairedUids,     \* insertion order of the keys of paired
    unsub,          \* hass.data[DOMAIN][DATA_UNSUB_DISPATCHER_CONNECT][entry_id]
    connected,      \* add_new_paired_sensor is connected to the signal
    signalled,      \* uids whose coordinator-added signal has been dispatched
    entities,       \* every entity object constructed, in construction order
    addCalls,       \* the calls of async_add_entities, in order
    continued,      \* valve entities whose _async_continue_entity_setup ran
    listeners,      \* <<entity, api>>: coordinator update listeners
    pending,        \* entities with a listener callback scheduled
    pc,             \* position of async_setup_entry
    refreshes,      \* coordinator refreshes so far
    updates,        \* host-driven update callbacks so far
    last            \* the operation that produced this state, and its outcome

vars == <<coordinators, paired, pairedUids, unsub, connected, signalled, entities,
          addCalls, continued, listeners, pending, pc, refreshes, updates, last>>

\* A coordinator's data is a mapping that may lack any of its keys.
DataOver(keys) == UNION {[S -> Values] : S \in SUBSET keys}
ValveData == DataOver({"temperature", "uptime"})
PairedData == DataOver({"battery", "temperature"})

NoData == [k \in {} |-> 0]
None == <<>>
Some(v) == <<v>>

Coordinator(d, ok) == [data |-> d, last_update_success |-> ok]

\* ------------------------------------------------------------ constructors
PairedSensorSensor(entry, coordinator, description) ==
    [cls |-> "PairedSensorSensor",
     entry |-> entry,
     coordinator |-> coordinator,
     key |-> description.key,
     native_unit_of_measurement |-> description.native_unit_of_measurement,
     native_value |-> None,
     available |-> TRUE]

ValveControllerSensor(entry, coords, description) ==
    [cls |-> "ValveControllerSensor",
     entry |-> entry,
     coordinators |-> coords,
     key |-> description.key,
     native_unit_of_measurement |-> description.native_unit_of_measurement,
     native_value |-> None,
     available |-> TRUE]

\* ------------------------------------------------------- update callbacks
\* The result of a callback: the entity afterwards, and whether the
\* subscript of a missing key raised out of the callback.
Returned(ent) == [entity |-> ent, raised |-> FALSE]
Raised(ent) == [entity |-> ent, raised |-> TRUE]

\* Variant: the two branches read each other's field.
PairedUpdate_SwappedFields(self) ==
    LET data == paired[self.coordinator].data IN
    IF self.key = SENSOR_KIND_BATTERY
    THEN IF "temperature" \in DOMAIN data
         THEN Returned([self EXCEPT !.native_value = Some(data["temperature"])])
         ELSE Raised(self)
    ELSE IF self.key = SENSOR_KIND_TEMPERATURE
    THEN IF "battery" \in DOMAIN data
         THEN Returned([self EXCEPT !.native_value = Some(data["battery"])])
         ELSE Raised(self)
    ELSE Returned(self)

\* Variant: the update also copies the coordinator's last_update_success.
PairedUpdate_SetsAvailable(self) ==
    LET c == paired[self.coordinator]
        avail == [self EXCEPT !.available = c.last_update_success]
    IN
    IF self.key = SENSOR_KIND_BATTERY
    THEN IF "battery" \in DOMAIN c.data
         THEN Returned([avail EXCEPT !.native_value = Some(c.data["battery"])])
         ELSE Raised(avail)
    ELSE IF self.key = SENSOR_KIND_TEMPERATURE
    THEN IF "temperature" \in DOMAIN c.data
         THEN Returned([avail EXCEPT !.native_value = Some(c.data["temperature"])])
         ELSE Raised(avail)
    ELSE Returned(self)

PairedSensorSensor_async_update_from_latest_data(self) ==
    LET data == paired[self.coordinator].data IN
    IF self.key = SENSOR_KIND_BATTERY
    THEN IF "battery" \in DOMAIN data
         THEN Returned([self EXCEPT !.native_value = Some(data["battery"])])
         ELSE Raised(self)
    ELSE IF self.key = SENSOR_KIND_TEMPERATURE
    THEN IF "temperature" \in DOMAIN data
         THEN Returned([self EXCEPT !.native_value = Some(data["temperature"])])
         ELSE Raised(self)
    ELSE Returned(self)

\* Valve controller updates that take availability (availOwn) and the value
\* (valueOwn) from the kind's own or from the other coordinator, and on a
\* missing key raise or (catch) reset the value.
ValveUpdateWith(self, availOwn, valueOwn, catch) ==
    LET own == IF self.key = SENSOR_KIND_TEMPERATURE
               THEN API_SYSTEM_ONBOARD_SENSOR_STATUS ELSE API_SYSTEM_DIAGNOSTICS
        other == IF self.key = SENSOR_KIND_TEMPERATURE
                 THEN API_SYSTEM_DIAGNOSTICS ELSE API_SYSTEM_ONBOARD_SENSOR_STATUS
        ca == coordinators[IF availOwn THEN own ELSE other]
        cv == coordinators[IF valueOwn THEN own ELSE other]
        avail == [self EXCEPT !.available = ca.last_update_success]
    IN
    IF self.key \in {SENSOR_KIND_TEMPERATURE, SENSOR_KIND_UPTIME}
    THEN IF self.key \in DOMAIN cv.data
         THEN Returned([avail EXCEPT !.native_value = Some(cv.data[self.key])])
         ELSE IF catch THEN Returned([avail EXCEPT !.native_value = None])
              ELSE Raised(avail)
    ELSE Returned(self)

\* Variant: the value is read from the other coordinator.
ValveUpdate_WrongCoordinator(self) == ValveUpdateWith(self, TRUE, FALSE, FALSE)

\* Variant: availability is taken from the other coordinator.
ValveUpdate_AvailableFromOther(self) == ValveUpdateWith(self, FALSE, TRUE, FALSE)

\* Variant: a missing key is caught and the value reset.
ValveUpdate_DefaultOnMissing(self) == ValveUpdateWith(self, TRUE, TRUE, TRUE)

ValveControllerSensor_async_update_from_latest_data(self) ==
    IF self.key = SENSOR_KIND_TEMPERATURE
    THEN LET c == coordinators[API_SYSTEM_ONBOARD_SENSOR_STATUS]
             avail == [self EXCEPT !.available = c.last_update_success]
         IN  IF "temperature" \in DOMAIN c.data
             THEN Returned([avail EXCEPT !.native_value = Some(c.data["temperature"])])
             ELSE Raised(avail)
    ELSE IF self.key = SENSOR_KIND_UPTIME
    THEN LET c == coordinators[API_SYSTEM_DIAGNOSTICS]
             avail == [self EXCEPT !.available = c.last_update_success]
         IN  IF "uptime" \in DOMAIN c.data
             THEN Returned([avail EXCEPT !.native_value = Some(c.data["uptime"])])
             ELSE Raised(avail)
    ELSE Returned(self)

async_update_from_latest_data(self) ==
    IF self.cls = "PairedSensorSensor"
    THEN PairedSensorSensor_async_update_from_latest_data(self)
    ELSE ValveControllerSensor_async_update_from_latest_data(self)

\* Variant: the listener is registered by the uptime entity instead.
ContinueEntitySetup_WrongKind(self) ==
    IF self.key = SENSOR_KIND_UPTIME
    THEN {API_SYSTEM_ONBOARD_SENSOR_STATUS}
    ELSE {}

\* The listeners a valve controller entity registers when its setup continues.
ValveControllerSensor_async_continue_entity_setup(self) ==
    IF self.key = SENSOR_KIND_TEMPERATURE
    THEN {API_SYSTEM_ONBOARD_SENSOR_STATUS}
    ELSE {}

\* ------------------------------------------------------------ setup entry
RECURSIVE PairedEntitiesFor(_, _)
\* for description in PAIRED_SENSOR_SENSORS: PairedSensorSensor(entry, coordinator, description)
PairedEntitiesFor(coordinator, descs) ==
    IF descs = <<>> THEN <<>>
    ELSE <<PairedSensorSensor(ENTRY_ID, coordinator, Head(descs))>>
            \o PairedEntitiesFor(coordinator, Tail(descs))

RECURSIVE ValveEntitiesFor(_)
ValveEntitiesFor(descs) ==
    IF descs = <<>> THEN <<>>
    ELSE <<ValveControllerSensor(ENTRY_ID, ENTRY_ID, Head(descs))>>
            \o ValveEntitiesFor(Tail(descs))

RECURSIVE AllPairedEntities(_)
\* for coordinator in paired.values(): for description in PAIRED_SENSOR_SENSORS
AllPairedEntities(uids) ==
    IF uids = <<>> THEN <<>>
    ELSE PairedEntitiesFor(Head(uids), PAIRED_SENSOR_SENSORS)
            \o AllPairedEntities(Tail(uids))

\* Variant: the stored paired sensor coordinators are not enumerated.
SetupSensors_ValveOnly == ValveEntitiesFor(VALVE_CONTROLLER_SENSORS)

\* The sensors list that async_setup_entry builds.
SetupSensors == ValveEntitiesFor(VALVE_CONTROLLER_SENSORS) \o AllPairedEntities(pairedUids)

\* async_add_entities(new, update_before_add): the host receives the objects.
AddEntities(new, update_before_add) ==
    /\ entities' = entities \o new
    /\ addCalls' = Append(addCalls,
                     [entities |-> [i \in 1..Len(new) |-> Len(entities) + i],
                      update_before_add |-> update_before_add])

Idle == pc # "subscribed"

\* The valve controller coordinators have completed their first refresh when
\* the platform is set up; a paired sensor coordinator is stored before its
\* first refresh.
FirstRefresh(api) ==
    IF api = API_SYSTEM_ONBOARD_SENSOR_STATUS
    THEN [k \in {"temperature"} |-> 1]
    ELSE [k \in {"uptime"} |-> MaxVal]

Init ==
    /\ coordinators = [a \in Apis |-> Coordinator(FirstRefresh(a), TRUE)]
    /\ paired = [u \in {} |-> Coordinator(NoData, TRUE)]
    /\ pairedUids = <<>>
    /\ \E n \in 0..MaxOtherHandles : unsub = [i \in 1..n |-> OtherHandle]
    /\ connected = FALSE
    /\ signalled = {}
    /\ entities = <<>>
    /\ addCalls = <<>>
    /\ continued = {}
    /\ listeners = {}
    /\ pending = {}
    /\ pc = "start"
    /\ refreshes = 0
    /\ updates = 0
    /\ last = [op |-> "init"]

\* Variant: the callback is connected and the handle dropped.
SetupSubscribe_HandleDropped ==
    /\ pc = "start"
    /\ connected' = TRUE
    /\ pc' = "subscribed"
    /\ last' = [op |-> "subscribe"]
    /\ UNCHANGED <<coordinators, paired, pairedUids, unsub, signalled, entities, addCalls,
                   continued, listeners, pending, refreshes, updates>>

\* async_setup_entry, lines 81-88: connect the callback, keep the handle.
SetupSubscribe ==
    /\ pc = "start"
    /\ connected' = TRUE
    /\ unsub' = Append(unsub, SensorHandle)
    /\ pc' = "subscribed"
    /\ last' = [op |-> "subscribe"]
    /\ UNCHANGED <<coordinators, paired, pairedUids, signalled, entities, addCalls,
                   continued, listeners, pending, refreshes, updates>>

\* async_setup_entry, lines 90-107: build the sensors and add them.
SetupAddEntities ==
    /\ pc = "subscribed"
    /\ AddEntities(SetupSensors, FALSE)
    /\ pc' = "done"
    /\ last' = [op |-> "setup"]
    /\ UNCHANGED <<coordinators, paired, pairedUids, unsub, connected, signalled,
                   continued, listeners, pending, refreshes, updates>>

\* Variant: the new entities are added without an update before the add.
add_new_paired_sensor_NoUpdate(uid) ==
    AddEntities(PairedEntitiesFor(uid, PAIRED_SENSOR_SENSORS), FALSE)

\* add_new_paired_sensor(uid), lines 68-79.
add_new_paired_sensor(uid) ==
    AddEntities(PairedEntitiesFor(uid, PAIRED_SENSOR_SENSORS), TRUE)

\* The paired sensor manager stores the coordinator of a new paired sensor.
StoreCoordinator(uid) ==
    /\ Idle
    /\ uid \notin DOMAIN paired
    /\ paired' = [u \in DOMAIN paired \cup {uid} |->
                    IF u = uid THEN Coordinator(NoData, TRUE) ELSE paired[u]]
    /\ pairedUids' = Append(pairedUids, uid)
    /\ last' = [op |-> "store", uid |-> uid]
    /\ UNCHANGED <<coordinators, unsub, connected, signalled, entities, addCalls,
                   continued, listeners, pending, pc, refreshes, updates>>

\* The signal of a stored coordinator is dispatched, once; the dispatcher
\* runs the callback when it is connected.
DispatchSignal(uid) ==
    /\ Idle
    /\ uid \in DOMAIN paired
    /\ uid \notin signalled
    /\ signalled' = signalled \cup {uid}
    /\ IF connected
       THEN add_new_paired_sensor(uid)
       ELSE UNCHANGED <<entities, addCalls>>
    /\ last' = [op |-> "dispatch", uid |-> uid, delivered |-> connected]
    /\ UNCHANGED <<coordinators, paired, pairedUids, unsub, connected,
                   continued, listeners, pending, pc, refreshes, updates>>

ListenersOf(api) == {e \in 1..Len(entities) : <<e, api>> \in listeners}

\* A coordinator after a refresh: a successful one replaces the data, a
\* failed one keeps the data and clears last_update_success.
Refreshed(c, d, ok) == IF ok THEN Coordinator(d, TRUE) ELSE Coordinator(c.data, FALSE)

\* A valve controller coordinator finishes a refresh and notifies its listeners.
RefreshValve(api, d, ok) ==
    /\ Idle
    /\ refreshes < MaxRefresh
    /\ refreshes' = refreshes + 1
    /\ coordinators' = [coordinators EXCEPT ![api] = Refreshed(coordinators[api], d, ok)]
    /\ pending' = pending \cup ListenersOf(api)
    /\ last' = [op |-> "refresh", api |-> api]
    /\ UNCHANGED <<paired, pairedUids, unsub, connected, signalled, entities, addCalls,
                   continued, listeners, pc, updates>>

\* A paired sensor coordinator finishes a refresh.
RefreshPaired(uid, d, ok) ==
    /\ Idle
    /\ refreshes < MaxRefresh
    /\ uid \in DOMAIN paired
    /\ refreshes' = refreshes + 1
    /\ paired' = [paired EXCEPT ![uid] = Refreshed(paired[uid], d, ok)]
    /\ last' = [op |-> "refresh", uid |-> uid]
    /\ UNCHANGED <<coordinators, pairedUids, unsub, connected, signalled, entities,
                   addCalls, continued, listeners, pending, pc, updates>>

\* The host continues the setup of an added valve controller entity.
ContinueEntitySetup(e) ==
    /\ Idle
    /\ e \in 1..Len(entities)
    /\ entities[e].cls = "ValveControllerSensor"
    /\ e \notin continued
    /\ continued' = continued \cup {e}
    /\ listeners' = listeners \cup
          {<<e, api>> : api \in ValveControllerSensor_async_continue_entity_setup(entities[e])}
    /\ last' = [op |-> "continue", e |-> e]
    /\ UNCHANGED <<coordinators, paired, pairedUids, unsub, connected, signalled,
                   entities, addCalls, pending, pc, refreshes, updates>>

\* One run of the update callback of entity e.
RunUpdate(e) ==
    LET r == async_update_from_latest_data(entities[e]) IN
    /\ entities' = [entities EXCEPT ![e] = r.entity]
    /\ last' = [op |-> "update", e |-> e, raised |-> r.raised]

\* The host calls the update callback of an added entity.
Update(e) ==
    /\ Idle
    /\ e \in 1..Len(entities)
    /\ updates < MaxUpdates
    /\ updates' = updates + 1
    /\ RunUpdate(e)
    /\ UNCHANGED <<coordinators, paired, pairedUids, unsub, connected, signalled,
                   addCalls, continued, listeners, pending, pc, refreshes>>

\* A scheduled listener callback runs.
DeliverUpdate(e) ==
    /\ Idle
    /\ e \in pending
    /\ pending' = pending \ {e}
    /\ RunUpdate(e)
    /\ UNCHANGED <<coordinators, paired, pairedUids, unsub, connected, signalled,
                   addCalls, continued, listeners, pc, refreshes, updates>>

\* The platform: setup of the entry, discovery of paired sensors, and the
\* host continuing the setup of the entities it was given.
Next ==
    \/ SetupSubscribe
    \/ SetupAddEntities
    \/ \E u \in Uids : StoreCoordinator(u)
    \/ \E u \in Uids : DispatchSignal(u)
    \/ \E e \in 1..Len(entities) : ContinueEntitySetup(e)

Spec == Init /\ [][Next]_vars

\* ------------------------------------------------ the entities' callbacks
\* The data of a paired sensor coordinator after its first refresh.
FirstPairedRefresh == [k \in {"battery", "temperature"} |->
                          IF k = "battery" THEN 1 ELSE MaxVal]

\* Two entities on which the callbacks are run while the coordinators refresh:
\* one of any class, description and coordinator, and a temperature entity
\* of either class next to it.
UnitEntities ==
    {PairedSensorSensor(ENTRY_ID, u, d) : u \in Uids, d \in Descriptions}
        \cup {ValveControllerSensor(ENTRY_ID, ENTRY_ID, d) : d \in Descriptions}

Bystanders ==
    {PairedSensorSensor(ENTRY_ID, 1, SENSOR_DESCRIPTION_TEMPERATURE),
     ValveControllerSensor(ENTRY_ID, ENTRY_ID, SENSOR_DESCRIPTION_TEMPERATURE)}

InitUnit ==
    /\ coordinators = [a \in Apis |-> Coordinator(FirstRefresh(a), TRUE)]
    /\ paired = [u \in Uids |-> Coordinator(FirstPairedRefresh, TRUE)]
    /\ pairedUids = [i \in 1..MaxUids |-> i]
    /\ unsub = <<SensorHandle>>
    /\ connected = TRUE
    /\ signalled = Uids
    /\ \E e1 \in UnitEntities, e2 \in Bystanders : entities = <<e1, e2>>
    /\ addCalls = <<[entities |-> <<1, 2>>, update_before_add |-> FALSE]>>
    /\ continued = {}
    /\ listeners = {}
    /\ pending = {}
    /\ pc = "done"
    /\ refreshes = 0
    /\ updates = 0
    /\ last = [op |-> "init"]

NextUnit ==
    \/ \E a \in Apis, d \in ValveData : RefreshValve(a, d, TRUE)
    \/ \E a \in Apis : RefreshValve(a, NoData, FALSE)
    \/ \E u \in Uids, d \in PairedData : RefreshPaired(u, d, TRUE)
    \/ \E u \in Uids : RefreshPaired(u, NoData, FALSE)
    \/ \E e \in 1..Len(entities) : Update(e)

SpecUnit == InitUnit /\ [][NextUnit]_vars

\* --------------------------------------- the valve controller's listeners
\* The entry set up with no paired sensor: the two valve controller entities
\* have been added; the host continues their setup, the coordinators refresh
\* and the scheduled listener callbacks run.
InitListen ==
    /\ coordinators = [a \in Apis |-> Coordinator(FirstRefresh(a), TRUE)]
    /\ paired = [u \in {} |-> Coordinator(NoData, TRUE)]
    /\ pairedUids = <<>>
    /\ \E n \in 0..MaxOtherHandles : unsub = [i \in 1..n |-> OtherHandle] \o <<SensorHandle>>
    /\ connected = TRUE
    /\ signalled = {}
    /\ entities = ValveEntitiesFor(VALVE_CONTROLLER_SENSORS)
    /\ addCalls = <<[entities |-> <<1, 2>>, update_before_add |-> FALSE]>>
    /\ continued = {}
    /\ listeners = {}
    /\ pending = {}
    /\ pc = "done"
    /\ refreshes = 0
    /\ updates = 0
    /\ last = [op |-> "setup"]

NextListen ==
    \/ \E a \in Apis, d \in ValveData : RefreshValve(a, d, TRUE)
    \/ \E a \in Apis : RefreshValve(a, NoData, FALSE)
    \/ \E e \in 1..Len(entities) : ContinueEntitySetup(e)
    \/ \E e \in 1..Len(entities) : Update(e)
    \/ \E e \in 1..Len(entities) : DeliverUpdate(e)

SpecListen == InitListen /\ [][NextListen]_vars

\* Listener callbacks that a coordinator scheduled are run by the event loop.
FairListen == SpecListen /\ \A e \in 1..2 : WF_vars(DeliverUpdate(e))

\* ================================================================= claims
IsPaired(ent) == ent.cls = "PairedSensorSensor"
IsValve(ent) == ent.cls = "ValveControllerSensor"
Onboard == coordinators[API_SYSTEM_ONBOARD_SENSOR_STATUS]
Diagnostics == coordinators[API_SYSTEM_DIAGNOSTICS]

\* This state was produced by a run of the update callback of entity e.
Updated(e) == last.op = "update" /\ last.e = e

\* This step is a run of the update callback of entity e.
UpdateStep(e) ==
    /\ last'.op = "update"
    /\ last'.e = e
    /\ (updates' # updates \/ pending' # pending)

\* The kinds an entity class has a branch for.
HasBranch(ent) ==
    \/ IsPaired(ent) /\ ent.key \in {SENSOR_KIND_BATTERY, SENSOR_KIND_TEMPERATURE}
    \/ IsValve(ent) /\ ent.key \in {SENSOR_KIND_TEMPERATURE, SENSOR_KIND_UPTIME}

\* The coordinator data an entity with a branch reads its value from.
SelectedData(ent) ==
    IF IsPaired(ent) THEN paired[ent.coordinator].data
    ELSE IF ent.key = SENSOR_KIND_TEMPERATURE THEN Onboard.data
    ELSE Diagnostics.data

\* C1: after an update, a paired sensor entity of kind "battery" holds
\* data["battery"], and one of kind "temperature" holds data["temperature"],
\* of the coordinator it was constructed with, whenever the key is present.
C1_PairedSelectsField ==
    \A e \in 1..Len(entities) :
        (Updated(e) /\ IsPaired(entities[e])) =>
            LET ent == entities[e]
                data == paired[ent.coordinator].data
            IN  /\ (ent.key = SENSOR_KIND_BATTERY /\ "battery" \in DOMAIN data)
                      => ent.native_value = Some(data["battery"])
                /\ (ent.key = SENSOR_KIND_TEMPERATURE /\ "temperature" \in DOMAIN data)
                      => ent.native_value = Some(data["temperature"])

C1_Witness ==
    \E e \in 1..Len(entities) :
        /\ Updated(e)
        /\ IsPaired(entities[e])
        /\ entities[e].key = SENSOR_KIND_BATTERY
        /\ DOMAIN paired[entities[e].coordinator].data = {"battery", "temperature"}
        /\ paired[entities[e].coordinator].data["battery"]
              # paired[entities[e].coordinator].data["temperature"]
        /\ entities[e].native_value # None

\* C2: after an update, a valve controller entity of kind "temperature" holds
\* data["temperature"] of the onboard-sensor-status coordinator and one of
\* kind "uptime" holds data["uptime"] of the system-diagnostics coordinator,
\* whatever the other coordinator holds under the same key.
C2_ValveSelectsCoordinatorAndField ==
    \A e \in 1..Len(entities) :
        (Updated(e) /\ IsValve(entities[e])) =>
            LET ent == entities[e] IN
            /\ (ent.key = SENSOR_KIND_TEMPERATURE /\ "temperature" \in DOMAIN Onboard.data)
                  => ent.native_value = Some(Onboard.data["temperature"])
            /\ (ent.key = SENSOR_KIND_UPTIME /\ "uptime" \in DOMAIN Diagnostics.data)
                  => ent.native_value = Some(Diagnostics.data["uptime"])

C2_Witness ==
    \E e \in 1..Len(entities) :
        /\ Updated(e)
        /\ IsValve(entities[e])
        /\ entities[e].key = SENSOR_KIND_TEMPERATURE
        /\ "temperature" \in DOMAIN Onboard.data
        /\ "temperature" \in DOMAIN Diagnostics.data
        /\ Onboard.data["temperature"] # Diagnostics.data["temperature"]
        /\ entities[e].native_value = Some(Onboard.data["temperature"])

\* The entities of an add call, as a sequence of entity objects.
CallEntities(ents, call) == [i \in 1..Len(call.entities) |-> ents[call.entities[i]]]

\* C3: every dispatch of the signal with a uid while the callback is connected
\* makes exactly one add call, with update-before-add, of exactly two new
\* entities: a PairedSensorSensor of kind "battery" and one of kind
\* "temperature", both bound to the coordinator stored for that uid.
C3_SignalAddsTwoPairedEntities ==
    [][\A u \in Uids :
        (last'.op = "dispatch" /\ last'.uid = u /\ u \notin signalled
            /\ u \in signalled' /\ connected)
        => /\ u \in DOMAIN paired
           /\ Len(addCalls') = Len(addCalls) + 1
           /\ SubSeq(addCalls', 1, Len(addCalls)) = addCalls
           /\ Len(entities') = Len(entities) + 2
           /\ SubSeq(entities', 1, Len(entities)) = entities
           /\ LET call == addCalls'[Len(addCalls')]
                  new == CallEntities(entities', call)
              IN  /\ call.update_before_add = TRUE
                  /\ call.entities = <<Len(entities) + 1, Len(entities) + 2>>
                  /\ \A i \in 1..2 : IsPaired(new[i]) /\ new[i].coordinator = u
                                        /\ new[i].entry = ENTRY_ID
                  /\ Cardinality({i \in 1..2 : new[i].key = SENSOR_KIND_BATTERY}) = 1
                  /\ Cardinality({i \in 1..2 : new[i].key = SENSOR_KIND_TEMPERATURE}) = 1
      ]_vars

C3_Witness ==
    /\ last.op = "dispatch"
    /\ last.delivered
    /\ Len(pairedUids) = 2
    /\ Len(addCalls) >= 2
    /\ addCalls[Len(addCalls)].update_before_add
    /\ entities[Len(entities)].coordinator = last.uid

\* C4: the add step of async_setup_entry makes one add call holding a
\* ValveControllerSensor of kind "temperature", one of kind "uptime", and then
\* for each stored paired sensor coordinator one PairedSensorSensor of kind
\* "battery" and one of kind "temperature": 2 + 2*N entities and no others.
C4_SetupAddsValveThenPaired ==
    [][(pc = "subscribed" /\ pc' = "done") =>
        LET N == Cardinality(DOMAIN paired)
            call == addCalls'[Len(addCalls')]
            new == CallEntities(entities', call)
        IN  /\ Len(addCalls') = Len(addCalls) + 1
            /\ SubSeq(addCalls', 1, Len(addCalls)) = addCalls
            /\ Len(entities') = Len(entities) + 2 + 2 * N
            /\ SubSeq(entities', 1, Len(entities)) = entities
            /\ call.entities = [i \in 1..(2 + 2 * N) |-> Len(entities) + i]
            /\ IsValve(new[1]) /\ new[1].key = SENSOR_KIND_TEMPERATURE
            /\ IsValve(new[2]) /\ new[2].key = SENSOR_KIND_UPTIME
            /\ \A i \in 1..2 : new[i].coordinators = ENTRY_ID /\ new[i].entry = ENTRY_ID
            /\ \A i \in 3..(2 + 2 * N) : IsPaired(new[i]) /\ new[i].entry = ENTRY_ID
            /\ \A u \in DOMAIN paired :
                  \A k \in {SENSOR_KIND_BATTERY, SENSOR_KIND_TEMPERATURE} :
                      Cardinality({i \in 3..(2 + 2 * N) :
                                      new[i].coordinator = u /\ new[i].key = k}) = 1
      ]_vars

C4_Witness ==
    /\ last.op = "setup"
    /\ Len(pairedUids) >= 1
    /\ Len(addCalls) = 1
    /\ Len(addCalls[1].entities) = 2 + 2 * Len(pairedUids)

\* C5: an update whose key is missing from the selected coordinator's data
\* raises out of the callback and leaves the native value as it was.
C5_MissingKeyPropagates ==
    [][\A e \in 1..Len(entities) :
        (UpdateStep(e) /\ HasBranch(entities[e])
            /\ entities[e].key \notin DOMAIN SelectedData(entities[e]))
        => /\ last'.raised
           /\ entities'[e].native_value = entities[e].native_value
      ]_vars

C5_Witness ==
    \E e \in 1..Len(entities) :
        /\ Updated(e)
        /\ last.raised
        /\ entities[e].key \notin DOMAIN SelectedData(entities[e])
        /\ entities[e].native_value # None

\* C6: after a successful valve controller update the entity's availability
\* is last_update_success of the coordinator its value is read from.
C6_AvailabilityFollowsOwnCoordinator ==
    \A e \in 1..Len(entities) :
        (Updated(e) /\ ~last.raised /\ IsValve(entities[e])) =>
            /\ entities[e].key = SENSOR_KIND_TEMPERATURE
                  => entities[e].available = Onboard.last_update_success
            /\ entities[e].key = SENSOR_KIND_UPTIME
                  => entities[e].available = Diagnostics.last_update_success

C6_Witness ==
    \E e \in 1..Len(entities) :
        /\ Updated(e)
        /\ ~last.raised
        /\ IsValve(entities[e])
        /\ entities[e].key = SENSOR_KIND_TEMPERATURE
        /\ Onboard.last_update_success
        /\ ~Diagnostics.last_update_success
        /\ entities[e].available

HandleCount(list) == Cardinality({i \in 1..Len(list) : list[i] = SensorHandle})

\* C7: the first step of async_setup_entry connects the callback and appends
\* its one handle to the entry's list before any entity is built or added;
\* afterwards the list is not touched again and the callback stays connected.
C7_SubscribeBeforeEnumerate ==
    [][/\ (pc = "start" /\ pc' # "start")
            => /\ pc' = "subscribed"
               /\ connected'
               /\ unsub' = Append(unsub, SensorHandle)
               /\ entities' = entities /\ addCalls' = addCalls
       /\ pc # "start" => (unsub' = unsub /\ connected' /\ HandleCount(unsub') = 1)
       /\ addCalls' # addCalls => (connected /\ HandleCount(unsub) = 1)
      ]_vars

C7_Witness ==
    /\ pc = "subscribed"
    /\ connected
    /\ unsub = <<OtherHandle, SensorHandle>>
    /\ Len(pairedUids) >= 1
    /\ entities = <<>>

\* C8: continuing the setup of a valve controller entity registers a listener
\* for the onboard-sensor-status coordinator when its kind is "temperature"
\* and none otherwise; every refresh of that coordinator after that leads to
\* a run of the temperature entity's update.
C8_TemperatureListens ==
    /\ [][\A e \in 1..Len(entities) :
            (e \notin continued /\ e \in continued')
            => listeners' = listeners \cup
                  (IF entities[e].key = SENSOR_KIND_TEMPERATURE
                   THEN {<<e, API_SYSTEM_ONBOARD_SENSOR_STATUS>>} ELSE {})
         ]_vars
    /\ \A e \in 1..2 :
          (/\ last.op = "refresh"
           /\ "api" \in DOMAIN last
           /\ last.api = API_SYSTEM_ONBOARD_SENSOR_STATUS
           /\ e \in continued
           /\ entities[e].key = SENSOR_KIND_TEMPERATURE)
          ~> Updated(e)

C8_Witness ==
    \E e \in 1..Len(entities) :
        /\ Updated(e)
        /\ updates = 0
        /\ refreshes >= 1
        /\ e \in continued
        /\ IsValve(entities[e])
        /\ entities[e].key = SENSOR_KIND_TEMPERATURE
        /\ <<e, API_SYSTEM_ONBOARD_SENSOR_STATUS>> \in listeners

EntitiesOf(u, k) ==
    {i \in 1..Len(entities) :
        IsPaired(entities[i]) /\ entities[i].coordinator = u /\ entities[i].key = k}

\* C9: once the setup is done and the signal of every stored coordinator has
\* been dispatched, each paired sensor uid has exactly one "battery" and
\* exactly one "temperature" entity.
C9_ExactlyOnePerUid ==
    (pc = "done" /\ DOMAIN paired \subseteq signalled) =>
        \A u \in DOMAIN paired :
            /\ Cardinality(EntitiesOf(u, SENSOR_KIND_BATTERY)) = 1
            /\ Cardinality(EntitiesOf(u, SENSOR_KIND_TEMPERATURE)) = 1

\* The unit of the description of a kind.
UnitOfKind(kind) ==
    IF kind = SENSOR_KIND_BATTERY THEN PERCENTAGE
    ELSE IF kind = SENSOR_KIND_TEMPERATURE THEN TEMP_FAHRENHEIT
    ELSE TIME_MINUTES

\* C10: an update callback changes neither the coordinators nor any other
\* entity, nor the updated entity's class, binding, kind or unit, which is
\* the unit of its description; a paired sensor update changes at most the
\* native value, and an entity whose kind has no branch is not changed at all.
C10_UpdateFrame ==
    [][\A e \in 1..Len(entities) :
        UpdateStep(e) =>
            /\ coordinators' = coordinators
            /\ paired' = paired
            /\ Len(entities') = Len(entities)
            /\ \A f \in 1..Len(entities) : f # e => entities'[f] = entities[f]
            /\ entities'[e].native_unit_of_measurement
                  = entities[e].native_unit_of_measurement
            /\ entities'[e].native_unit_of_measurement = UnitOfKind(entities[e].key)
            /\ entities'[e].cls = entities[e].cls
            /\ entities'[e].key = entities[e].key
            /\ IsPaired(entities[e])
                  => entities'[e] = [entities[e] EXCEPT
                                        !.native_value = entities'[e].native_value]
            /\ ~HasBranch(entities[e]) => (entities'[e] = entities[e] /\ ~last'.raised)
      ]_vars

C10_Witness ==
    \E e \in 1..Len(entities) :
        /\ Updated(e)
        /\ IsPaired(entities[e])
        /\ entities[e].native_value # None
        /\ ~paired[entities[e].coordinator].last_update_success
        /\ entities[e].available
        /\ \E f \in 1..Len(entities) :
              f # e /\ ~HasBranch(entities[f]) /\ entities[f].native_value = None
====
